---- MODULE Spec2Model ----
(***************************************************************************)
(* A model of the backdoor attack/defense skeletons of trojanvision:       *)
(*   - ModelInspection (detect / get_mark_loss_list / optimize_mark),      *)
(*     src/trojanvision/defenses/backdoor/abstract.py                      *)
(*   - InputFiltering (detect / get_pred_labels / score2label), same file  *)
(*   - TrainingFiltering (__init__ / get_mix_dataset / get_true_labels),   *)
(*     same file                                                           *)
(*   - TrojanNN (__init__ / attack / get_neuron_idx / preprocess_mark),    *)
(*     src/trojanvision/attacks/backdoor/trojannn.py                       *)
(*                                                                         *)
(* Tensors are sequences: a mark of shape (C+1, H, W) is a sequence of     *)
(* C+1 channels, each the flattened sequence of its H*W values.  Values of *)
(* the bounded reparameterisation are fixed-point numbers in thousandths   *)
(* (0 .. 1000 stands for 0.0 .. 1.0).  The model, the criterion, the data  *)
(* loader and the optimizer are external collaborators: what they return   *)
(* is a nondeterministic choice from a small set.  All tensor values are   *)
(* finite numbers (no NaN); defense_remask_epoch and neuron_epoch are at   *)
(* least 1.  Printing and the Jaccard/MAD reports change no state and are  *)
(* left out.                                                               *)
(***************************************************************************)
EXTENDS Integers, Sequences, FiniteSets, TLC

VARIABLES
    \* ---- ModelInspection --------------------------------------------------
    pc,                    \* position in detect / get_mark_loss_list / optimize_mark
    num_classes,           \* self.model.num_classes
    defense_remask_epoch,  \* self.defense_remask_epoch
    loader,                \* self.dataset.loader['train']: the batch sizes
    early_hook,            \* TRUE iff a subclass overrides check_early_stop
    target_class,          \* self.target_class
    mark_random_pos,       \* self.mark_random_pos (read from the attack's mark)
    mark,                  \* self.attack.mark.mark
    atanh_mark,            \* the unconstrained parameter of optimize_mark
    norm_best,             \* optimize_mark's norm_best
    mark_best,             \* optimize_mark's mark_best
    entropy_best,          \* optimize_mark's entropy_best
    norm,                  \* AverageMeter 'Norm'
    entropy,               \* AverageMeter 'Entropy'
    label,                 \* the label of the running / next optimize_mark call
    epoch,                 \* number of epochs of the running call that completed
    batch,                 \* index in loader of the next batch of the epoch
    ret,                   \* the value optimize_mark returned
    mark_list,             \* get_mark_loss_list's mark_list
    loss_list,             \* get_mark_loss_list's loss_list
    file,                  \* contents of the .npz file at file_path
    \* ---- history of the running optimize_mark call -------------------------
    first_mask_norm,       \* L1 norm of the mask held when the first epoch ended
    first_norm_avg,        \* norm.avg of the first completed epoch
    steps,                 \* optimizer.step() calls of the running call
    checks,                \* check_early_stop evaluations of the running call
    stopped,               \* TRUE iff the running call left its loop by break
    opt_log,               \* <<label, mark, loss>> of every optimize_mark return
    \* ---- InputFiltering ---------------------------------------------------
    fpc,                   \* position in InputFiltering.detect
    defense_input_num,     \* self.defense_input_num
    valid_loader,          \* loader['valid']: per batch, the number of inputs
                           \* remove_misclassify keeps
    valid_idx,             \* index in valid_loader of the next batch
    remain_counter,        \* get_pred_labels' remain_counter
    clean_scores,          \* get_pred_labels' list clean_scores
    poison_scores,         \* get_pred_labels' list poison_scores
    clean_sorted,          \* clean_scores after torch.cat(..).flatten().sort()[0]
    poison_sorted,         \* poison_scores after torch.cat(..).flatten().sort()[0]
    y_pred,                \* detect's y_pred
    y_true,                \* detect's y_true
    \* ---- TrojanNN ---------------------------------------------------------
    tpc,                   \* position in TrojanNN.__init__ / attack
    nn_random_init,        \* self.mark.mark_random_init
    nn_random_pos,         \* self.mark.mark_random_pos
    nn_mark,               \* self.mark.mark
    nn_atanh_mark,         \* preprocess_mark's atanh_mark
    weight,                \* state_dict()[preprocess_next_layer + '.weight']
    mean_activation,       \* per neuron of preprocess_layer, the mean absolute
                           \* activation over the dataset
    neuron_num,            \* self.neuron_num
    neuron_epoch,          \* self.neuron_epoch
    target_value,          \* self.target_value
    neuron_idx,            \* self.neuron_idx
    nn_step,               \* iterations of preprocess_mark's loop that completed
    trigger_feats,         \* the layer's output for the trigger input, last step
    loss,                  \* preprocess_mark's loss, last step
    \* ---- TrainingFiltering ------------------------------------------------
    mpc,                   \* position in TrainingFiltering.__init__ / detect
    tf_input_num,          \* self.defense_input_num; 0 stands for None as well
    train_mode,            \* self.attack.train_mode
    poison_percent,        \* self.attack.poison_percent, in quarters
    train_len,             \* len(self.dataset.loader['train'].dataset)
    attack_poison_len,     \* len(self.attack.poison_dataset)
    clean_len,             \* len(self.clean_dataset)
    poison_len,            \* len(self.poison_dataset)
    tf_y_true              \* what TrainingFiltering.get_true_labels returned

inspVars == <<pc, num_classes, defense_remask_epoch, loader, early_hook,
              target_class, mark_random_pos, mark, atanh_mark, norm_best,
              mark_best, entropy_best, norm, entropy, label, epoch, batch, ret,
              mark_list, loss_list, file, first_mask_norm, first_norm_avg,
              steps, checks, stopped, opt_log>>

filtVars == <<fpc, defense_input_num, valid_loader, valid_idx, remain_counter,
              clean_scores, poison_scores, clean_sorted, poison_sorted, y_pred,
              y_true>>

nnVars == <<tpc, nn_random_init, nn_random_pos, nn_mark, nn_atanh_mark, weight,
            mean_activation, neuron_num, neuron_epoch, target_value, neuron_idx,
            nn_step, trigger_feats, loss>>

mixVars == <<mpc, tf_input_num, train_mode, poison_percent, train_len,
             attack_poison_len, clean_len, poison_len, tf_y_true>>

vars == <<inspVars, filtVars, nnVars, mixVars>>

-----------------------------------------------------------------------------
(* Bounds of the explored inputs.                                          *)

\* at most this many classes in a sweep
MaxClasses == 2
\* at most this many optimizer steps (classes * epochs * batches) in a sweep
MaxSteps == 4

-----------------------------------------------------------------------------
(* Tensors.                                                                *)

\* dataset.data_shape = (C, H, W)
data_shape == <<1, 1, 1>>

NumPixels == data_shape[2] * data_shape[3]

\* mark.size(0): the colour channels and the mask (alpha) channel
MarkChannels == data_shape[1] + 1

\* values an unconstrained parameter cell is drawn from (randn_like) or moved
\* to (optimizer.step): any magnitude
AtanhVals == {-20, 1}

Tensors(chans, vals) == [1..chans -> [1..NumPixels -> vals]]

\* torch.zeros(mark.size(0), H, W)
ZeroTensor == [c \in 1..MarkChannels |-> [p \in 1..NumPixels |-> 0]]

\* the shape of a tensor in this representation
HasMarkShape(t) ==
    /\ DOMAIN t = 1..MarkChannels
    /\ \A c \in DOMAIN t : DOMAIN t[c] = 1..NumPixels

Abs(x) == IF x < 0 THEN -x ELSE x

\* x.tanh(), in thousandths, as float32 rounds it (saturating to exactly 1)
TanhMilli(x) ==
    LET a == Abs(x)
        t == CASE a = 0 -> 0
               [] a = 1 -> 762
               [] a = 2 -> 964
               [] a = 3 -> 995
               [] a \in 4..9 -> 999
               [] OTHER -> 1000
    IN IF x < 0 THEN -t ELSE t

\* trojanzoo.utils.tensor.tanh_func on one value: (tanh(x) + 1) / 2
TanhFunc(x) == (TanhMilli(x) + 1000) \div 2

\* tanh_func on a tensor
TanhTensor(t) == [c \in DOMAIN t |-> [p \in DOMAIN t[c] |-> TanhFunc(t[c][p])]]

RECURSIVE SumAbs(_, _)
SumAbs(s, n) == IF n = 0 THEN 0 ELSE Abs(s[n]) + SumAbs(s, n - 1)

\* t.norm(p=1) of one channel
L1Norm(ch) == SumAbs(ch, Len(ch))

\* mark[-1], the mask channel
MaskChannel(m) == m[Len(m)]

-----------------------------------------------------------------------------
(* Floats of the bookkeeping: <<"inf", 0, 0>>, <<"none", 0, 0>> (Python's  *)
(* None) or the quotient <<"num", s, c>> = s / c.                          *)

Inf == <<"inf", 0, 0>>
None == <<"none", 0, 0>>
NoTensor == <<>>
Num(s, c) == <<"num", s, c>>

\* a < b on floats
FloatLt(a, b) ==
    /\ a[1] = "num"
    /\ \/ b[1] = "inf"
       \/ b[1] = "num" /\ a[2] * b[3] < b[2] * a[3]

\* a <= b on floats
FloatLe(a, b) ==
    \/ a = b
    \/ FloatLt(a, b)
    \/ a[1] = "num" /\ b[1] = "num" /\ a[2] * b[3] = b[2] * a[3]

\* AverageMeter: reset() and update(val, n); avg = sum / count
MeterReset == [sum |-> 0, count |-> 0]
MeterUpdate(m, val, n) == [sum |-> m.sum + val * n, count |-> m.count + n]
MeterAvg(m) == IF m.count = 0 THEN Num(0, 1) ELSE Num(m.sum, m.count)

\* values the criterion returns for a batch
EntropyVals == {0, 1}

\* the train loader's batch sizes: n batches, all full (2 samples) but
\* possibly the last (drop_last is off)
Loader(n, last) == [i \in 1..n |-> IF i = n THEN last ELSE 2]

-----------------------------------------------------------------------------
(* ModelInspection                                                         *)

\* the sweeps explored: num_classes, defense_remask_epoch and the train loader
InspConfigs ==
    {cfg \in (1..MaxClasses) \X (1..MaxSteps)
                \X {Loader(n, last) : n \in 1..MaxSteps, last \in {1, 2}} :
        cfg[1] * cfg[2] * Len(cfg[3]) <= MaxSteps}

InspInit ==
    /\ pc = "init"
    /\ \E cfg \in InspConfigs :
          /\ num_classes = cfg[1]
          /\ defense_remask_epoch = cfg[2]
          /\ loader = cfg[3]
    /\ early_hook \in BOOLEAN
    /\ target_class \in 0..(num_classes - 1)
    /\ mark_random_pos = FALSE
    /\ mark \in {TanhTensor(t) : t \in Tensors(MarkChannels, {0, 20})}
    /\ atanh_mark = NoTensor
    /\ norm_best = Inf
    /\ mark_best = NoTensor
    /\ entropy_best = None
    /\ norm = MeterReset
    /\ entropy = MeterReset
    /\ label = 0
    /\ epoch = 0
    /\ batch = 0
    /\ ret = <<NoTensor, None>>
    /\ mark_list = <<>>
    /\ loss_list = <<>>
    /\ file = <<>>
    /\ first_mask_norm = 0
    /\ first_norm_avg = None
    /\ steps = 0
    /\ checks = 0
    /\ stopped = FALSE
    /\ opt_log = <<>>

\* ModelInspection.detect up to the call of get_mark_loss_list, and
\* get_mark_loss_list up to its loop
Detect ==
    /\ pc = "init"
    /\ mark_random_pos' \in BOOLEAN
    /\ mark' = ZeroTensor
    /\ mark_list' = <<>>
    /\ loss_list' = <<>>
    /\ label' = 0
    /\ pc' = "sweep"
    /\ UNCHANGED <<filtVars, nnVars, mixVars>>
    /\ UNCHANGED <<num_classes, defense_remask_epoch, loader, early_hook,
                   target_class, atanh_mark, norm_best, mark_best, entropy_best,
                   norm, entropy, epoch, batch, ret, file, first_mask_norm,
                   first_norm_avg, steps, checks, stopped, opt_log>>

\* a mark that is the unconstrained parameter itself
ReparamMissing(t) == t

\* the mark optimize_mark installs before and inside its loop
Reparam(t) == TanhTensor(t)

\* a call that goes on from the best-so-far triple of the call before it
InitialBestCarried == <<norm_best, mark_best, entropy_best>>

\* norm_best = float('inf'), mark_best = None, entropy_best = None
InitialBest == <<Inf, NoTensor, None>>

\* optimize_mark(label) up to its epoch loop
OptimizeStart ==
    /\ pc = "sweep"
    /\ label < num_classes
    /\ \E t \in Tensors(MarkChannels, AtanhVals) :
          /\ atanh_mark' = t
          /\ mark' = Reparam(t)
    /\ norm_best' = InitialBest[1]
    /\ mark_best' = InitialBest[2]
    /\ entropy_best' = InitialBest[3]
    /\ norm' = MeterReset
    /\ entropy' = MeterReset
    /\ epoch' = 0
    /\ batch' = 0
    /\ first_mask_norm' = 0
    /\ first_norm_avg' = None
    /\ steps' = 0
    /\ checks' = 0
    /\ stopped' = FALSE
    /\ pc' = IF defense_remask_epoch > 0 THEN "epoch_start" ELSE "finish"
    /\ UNCHANGED <<filtVars, nnVars, mixVars>>
    /\ UNCHANGED <<num_classes, defense_remask_epoch, loader, early_hook,
                   target_class, mark_random_pos, label, ret, mark_list,
                   loss_list, file, opt_log>>

\* the head of an epoch: the meters are reset
EpochStart ==
    /\ pc = "epoch_start"
    /\ norm' = MeterReset
    /\ entropy' = MeterReset
    /\ batch' = 1
    /\ pc' = IF Len(loader) = 0 THEN "epoch_end" ELSE "batch"
    /\ UNCHANGED <<filtVars, nnVars, mixVars>>
    /\ UNCHANGED <<num_classes, defense_remask_epoch, loader, early_hook,
                   target_class, mark_random_pos, mark, atanh_mark, norm_best,
                   mark_best, entropy_best, label, epoch, ret, mark_list,
                   loss_list, file, first_mask_norm, first_norm_avg, steps,
                   checks, stopped, opt_log>>

\* one batch: the meters are updated with the norm of the current mask and the
\* entropy of the batch, the optimizer moves atanh_mark, the mark is rebuilt
Batch ==
    /\ pc = "batch"
    /\ \E batch_entropy \in EntropyVals :
          entropy' = MeterUpdate(entropy, batch_entropy, loader[batch])
    /\ norm' = MeterUpdate(norm, L1Norm(MaskChannel(mark)), loader[batch])
    /\ \E t \in Tensors(MarkChannels, AtanhVals) :
          /\ atanh_mark' = t
          /\ mark' = Reparam(t)
    /\ steps' = steps + 1
    /\ batch' = batch + 1
    /\ pc' = IF batch = Len(loader) THEN "epoch_end" ELSE "batch"
    /\ UNCHANGED <<filtVars, nnVars, mixVars>>
    /\ UNCHANGED <<num_classes, defense_remask_epoch, loader, early_hook,
                   target_class, mark_random_pos, norm_best, mark_best,
                   entropy_best, label, epoch, ret, mark_list, loss_list, file,
                   first_mask_norm, first_norm_avg, checks, stopped, opt_log>>

\* a comparison the wrong way round: the snapshot follows the largest norm
TakesSnapshotLargest(avg, best_norm, best_mark) ==
    \/ FloatLt(best_norm, avg)
    \/ best_mark = NoTensor

\* one test where the code has two: no snapshot before there is one
TakesSnapshotNever(avg, best_norm, best_mark) ==
    /\ FloatLt(avg, best_norm)
    /\ best_mark # NoTensor

\* "if norm.avg < norm_best" and "if mark_best is None": is the snapshot taken?
TakesSnapshot(avg, best_norm, best_mark) ==
    \/ FloatLt(avg, best_norm)
    \/ best_mark = NoTensor

\* check_early_stop: always False unless a subclass overrides it
EarlyStopResults == IF early_hook THEN BOOLEAN ELSE {FALSE}

\* a loop that reports the early stop and goes on
AfterEpochNoBreak(stop, done) ==
    IF done < defense_remask_epoch THEN "epoch_start" ELSE "finish"

\* what follows the end of an epoch whose check_early_stop returned stop
AfterEpoch(stop, done) ==
    IF stop THEN "finish"
    ELSE IF done < defense_remask_epoch THEN "epoch_start" ELSE "finish"

\* the end of an epoch: the best snapshot is updated, then check_early_stop is
\* evaluated
EpochEnd ==
    /\ pc = "epoch_end"
    /\ IF TakesSnapshot(MeterAvg(norm), norm_best, mark_best)
       THEN /\ mark_best' = mark
            /\ norm_best' = MeterAvg(norm)
            /\ entropy_best' = MeterAvg(entropy)
       ELSE UNCHANGED <<mark_best, norm_best, entropy_best>>
    /\ first_mask_norm' = IF epoch = 0 THEN L1Norm(MaskChannel(mark)) ELSE first_mask_norm
    /\ first_norm_avg' = IF epoch = 0 THEN MeterAvg(norm) ELSE first_norm_avg
    /\ epoch' = epoch + 1
    /\ checks' = checks + 1
    /\ \E stop \in EarlyStopResults :
          /\ stopped' = stop
          /\ pc' = AfterEpoch(stop, epoch + 1)
    /\ UNCHANGED <<filtVars, nnVars, mixVars>>
    /\ UNCHANGED <<num_classes, defense_remask_epoch, loader, early_hook,
                   target_class, mark_random_pos, mark, atanh_mark, norm,
                   entropy, label, batch, ret, mark_list, loss_list, file,
                   steps, opt_log>>

\* optimize_mark after its loop: the mark is set to the best snapshot, which is
\* returned with its entropy
OptimizeReturn ==
    /\ pc = "finish"
    /\ mark' = mark_best
    /\ ret' = <<mark_best, entropy_best>>
    /\ opt_log' = Append(opt_log, <<label, mark_best, entropy_best>>)
    /\ pc' = "returned"
    /\ UNCHANGED <<filtVars, nnVars, mixVars>>
    /\ UNCHANGED <<num_classes, defense_remask_epoch, loader, early_hook,
                   target_class, mark_random_pos, atanh_mark, norm_best,
                   mark_best, entropy_best, norm, entropy, label, epoch, batch,
                   mark_list, loss_list, file, first_mask_norm, first_norm_avg,
                   steps, checks, stopped>>

\* a loop that skips every other label
NextLabelSkip(l) == l + 2

\* the label get_mark_loss_list's loop goes to after label l
NextLabel(l) == l + 1

\* a save that writes the newest pair only
SavezLastOnly(marks, losses) ==
    <<[mark_list |-> <<marks[Len(marks)]>>, loss_list |-> <<losses[Len(losses)]>>]>>

\* np.savez(file_path, mark_list=np.stack(mark_list), loss_list=np.array(loss_list)):
\* the file at file_path is replaced by an archive of the two whole lists
Savez(marks, losses) == <<[mark_list |-> marks, loss_list |-> losses]>>

\* the body of get_mark_loss_list's loop after optimize_mark returned: the pair
\* is appended and the lists are saved
SweepAppend ==
    /\ pc = "returned"
    /\ mark_list' = Append(mark_list, ret[1])
    /\ loss_list' = Append(loss_list, ret[2])
    /\ file' = Savez(mark_list', loss_list')
    /\ label' = NextLabel(label)
    /\ pc' = "sweep"
    /\ UNCHANGED <<filtVars, nnVars, mixVars>>
    /\ UNCHANGED <<num_classes, defense_remask_epoch, loader, early_hook,
                   target_class, mark_random_pos, mark, atanh_mark, norm_best,
                   mark_best, entropy_best, norm, entropy, epoch, batch, ret,
                   first_mask_norm, first_norm_avg, steps, checks, stopped,
                   opt_log>>

\* get_mark_loss_list returns; detect installs the mark of the target class
\* unless the attack's mark has a random position
SweepDone ==
    /\ pc = "sweep"
    /\ label >= num_classes
    /\ mark' = IF mark_random_pos THEN mark ELSE mark_list[target_class + 1]
    /\ pc' = "done"
    /\ UNCHANGED <<filtVars, nnVars, mixVars>>
    /\ UNCHANGED <<num_classes, defense_remask_epoch, loader, early_hook,
                   target_class, mark_random_pos, atanh_mark, norm_best,
                   mark_best, entropy_best, norm, entropy, label, epoch, batch,
                   ret, mark_list, loss_list, file, first_mask_norm,
                   first_norm_avg, steps, checks, stopped, opt_log>>

\* ModelInspection is not running
InspIdle ==
    /\ pc = "idle"
    /\ num_classes = 0
    /\ defense_remask_epoch = 0
    /\ loader = <<>>
    /\ early_hook = FALSE
    /\ target_class = 0
    /\ mark_random_pos = FALSE
    /\ mark = ZeroTensor
    /\ atanh_mark = NoTensor
    /\ norm_best = Inf
    /\ mark_best = NoTensor
    /\ entropy_best = None
    /\ norm = MeterReset
    /\ entropy = MeterReset
    /\ label = 0
    /\ epoch = 0
    /\ batch = 0
    /\ ret = <<NoTensor, None>>
    /\ mark_list = <<>>
    /\ loss_list = <<>>
    /\ file = <<>>
    /\ first_mask_norm = 0
    /\ first_norm_avg = None
    /\ steps = 0
    /\ checks = 0
    /\ stopped = FALSE
    /\ opt_log = <<>>

-----------------------------------------------------------------------------
(* InputFiltering                                                          *)

\* at most this many inputs asked for (defense_input_num)
MaxInputNum == 2
\* at most this many correctly classified inputs in the whole valid loader
MaxValidSamples == 3

\* scores check() gives an input
ScoreVals == {0, 1, 2}

\* the valid loaders of at most n batches that keep at most t inputs in all
RECURSIVE LoadersOf(_, _)
LoadersOf(t, n) ==
    IF n = 0 THEN {<<>>}
    ELSE {<<>>} \cup UNION {{<<k>> \o r : r \in LoadersOf(t - k, n - 1)} : k \in 0..t}

\* torch.cat(list).flatten()
RECURSIVE Cat(_)
Cat(list) == IF list = <<>> THEN <<>> ELSE Head(list) \o Cat(Tail(list))

RECURSIVE Insert(_, _)
Insert(x, s) ==
    IF s = <<>> THEN <<x>>
    ELSE IF x <= Head(s) THEN <<x>> \o s
    ELSE <<Head(s)>> \o Insert(x, Tail(s))

\* t.sort()[0]
RECURSIVE Sort(_)
Sort(s) == IF s = <<>> THEN <<>> ELSE Insert(Head(s), Sort(Tail(s)))

\* t.bool() on one value
ToBool(x) == x # 0

\* the labels with the poison scores first
Score2LabelPoisonFirst(clean, poison) ==
    [i \in 1..(Len(clean) + Len(poison)) |-> ToBool((poison \o clean)[i])]

\* InputFiltering.score2label: torch.cat([clean_scores, poison_scores]).bool()
Score2Label(clean, poison) ==
    [i \in 1..(Len(clean) + Len(poison)) |-> ToBool((clean \o poison)[i])]

\* InputFiltering.get_true_labels: zeros(n) with y_true[len(y_true) // 2:] = True
GetTrueLabels(n) == [i \in 1..n |-> i > n \div 2]

\* the inputs of a batch of n that get_pred_labels scores
Kept(n, remain) == IF n < remain THEN n ELSE remain

\* remain_counter after a batch of n
RemainAfter(n, remain) == IF n < remain THEN remain - n ELSE remain

FiltInit ==
    /\ fpc = "start"
    /\ defense_input_num \in 0..MaxInputNum
    /\ valid_loader \in LoadersOf(MaxValidSamples, MaxValidSamples)
    /\ valid_idx = 0
    /\ remain_counter = 0
    /\ clean_scores = <<>>
    /\ poison_scores = <<>>
    /\ clean_sorted = <<>>
    /\ poison_sorted = <<>>
    /\ y_pred = <<>>
    /\ y_true = <<>>

\* InputFiltering is not running
FiltIdle ==
    /\ fpc = "idle"
    /\ defense_input_num = 0
    /\ valid_loader = <<>>
    /\ valid_idx = 0
    /\ remain_counter = 0
    /\ clean_scores = <<>>
    /\ poison_scores = <<>>
    /\ clean_sorted = <<>>
    /\ poison_sorted = <<>>
    /\ y_pred = <<>>
    /\ y_true = <<>>

\* detect calls get_pred_labels, which runs up to its loop
FilterStart ==
    /\ fpc = "start"
    /\ clean_scores' = <<>>
    /\ poison_scores' = <<>>
    /\ remain_counter' = defense_input_num
    /\ valid_idx' = 1
    /\ fpc' = "loop"
    /\ UNCHANGED <<defense_input_num, valid_loader, clean_sorted, poison_sorted,
                   y_pred, y_true>>
    /\ UNCHANGED <<inspVars, nnVars, mixVars>>

\* a batch of which remove_misclassify keeps nothing: continue
FilterSkip ==
    /\ fpc = "loop"
    /\ valid_idx <= Len(valid_loader)
    /\ remain_counter # 0
    /\ valid_loader[valid_idx] = 0
    /\ valid_idx' = valid_idx + 1
    /\ UNCHANGED <<fpc, defense_input_num, valid_loader, remain_counter,
                   clean_scores, poison_scores, clean_sorted, poison_sorted,
                   y_pred, y_true>>
    /\ UNCHANGED <<inspVars, nnVars, mixVars>>

\* a batch with inputs: the counter is updated, the inputs kept and their
\* poisoned versions are scored by check()
FilterScore ==
    /\ fpc = "loop"
    /\ valid_idx <= Len(valid_loader)
    /\ remain_counter # 0
    /\ valid_loader[valid_idx] > 0
    /\ LET n == valid_loader[valid_idx]
           kept == Kept(n, remain_counter)
       IN /\ remain_counter' = RemainAfter(n, remain_counter)
          /\ \E cs \in [1..kept -> ScoreVals] :
                clean_scores' = Append(clean_scores, cs)
          /\ \E ps \in [1..kept -> ScoreVals] :
                poison_scores' = Append(poison_scores, ps)
    /\ valid_idx' = valid_idx + 1
    /\ UNCHANGED <<fpc, defense_input_num, valid_loader, clean_sorted,
                   poison_sorted, y_pred, y_true>>
    /\ UNCHANGED <<inspVars, nnVars, mixVars>>

\* after the loop (the loader is exhausted or remain_counter is 0): the scores
\* are concatenated and sorted and score2label gives y_pred; torch.cat raises
\* on an empty list
FilterCat ==
    /\ fpc = "loop"
    /\ valid_idx > Len(valid_loader) \/ remain_counter = 0
    /\ IF clean_scores = <<>>
       THEN /\ fpc' = "error_cat"
            /\ UNCHANGED <<clean_sorted, poison_sorted, y_pred>>
       ELSE /\ clean_sorted' = Sort(Cat(clean_scores))
            /\ poison_sorted' = Sort(Cat(poison_scores))
            /\ y_pred' = Score2Label(clean_sorted', poison_sorted')
            /\ fpc' = "pred"
    /\ UNCHANGED <<defense_input_num, valid_loader, valid_idx, remain_counter,
                   clean_scores, poison_scores, y_true>>
    /\ UNCHANGED <<inspVars, nnVars, mixVars>>

\* detect calls get_true_labels
FilterTrueLabels ==
    /\ fpc = "pred"
    /\ y_true' = GetTrueLabels(defense_input_num)
    /\ fpc' = "labels"
    /\ UNCHANGED <<defense_input_num, valid_loader, valid_idx, remain_counter,
                   clean_scores, poison_scores, clean_sorted, poison_sorted,
                   y_pred>>
    /\ UNCHANGED <<inspVars, nnVars, mixVars>>

\* detect hands y_true and y_pred to the metrics, which raise on vectors of
\* different lengths
FilterMetrics ==
    /\ fpc = "labels"
    /\ fpc' = IF Len(y_true) = Len(y_pred) THEN "scored" ELSE "error_len"
    /\ UNCHANGED <<defense_input_num, valid_loader, valid_idx, remain_counter,
                   clean_scores, poison_scores, clean_sorted, poison_sorted,
                   y_pred, y_true>>
    /\ UNCHANGED <<inspVars, nnVars, mixVars>>

-----------------------------------------------------------------------------
(* TrojanNN                                                                *)

\* neuron_num is at most this
MaxNeuronNum == 4
\* neuron_epoch is at most this
MaxNeuronEpoch == 2

\* the weight of preprocess_next_layer: (out_features, in_features), and for a
\* convolution the number of kernel positions after flatten(2)
weight_shape == <<2, 3>>
kernel_size == <<2>>

NumNeurons == weight_shape[2]

\* values of a weight
WeightVals == {-2, 1}

\* values of an activation
ActVals == {-2, 0, 1}

\* values of the mean absolute activation of a neuron over the dataset
MeanActVals == {0, 1}

\* a weight tensor: dim is 2 (linear) or 4 (convolution); w[o][i] holds the
\* kernel values of output o and input i (one value when dim is 2)
WeightsOf(dim, k) ==
    {[dim |-> dim, w |-> m] :
        m \in [1..weight_shape[1] -> [1..weight_shape[2] -> [1..k -> WeightVals]]]}

RECURSIVE SumSeq(_, _)
SumSeq(s, n) == IF n = 0 THEN 0 ELSE s[n] + SumSeq(s, n - 1)

\* weight.abs(), then flatten(2).mean(2) when dim > 2, then mean(0): per input
\* neuron the quotient <<sum, count>>
MeanAbsWeight(wt, i) ==
    LET outs == DOMAIN wt.w
        perOut == [o \in outs |-> SumAbs(wt.w[o][i], Len(wt.w[o][i]))]
        k == IF wt.dim > 2 THEN Len(wt.w[1][i]) ELSE 1
    IN <<SumSeq(perOut, Len(perOut)), k * Len(perOut)>>

\* a <= b on quotients
QuotLe(a, b) == a[1] * b[2] <= b[1] * a[2]

Injective(s) == \A i, j \in DOMAIN s : i # j => s[i] # s[j]

Range(s) == {s[i] : i \in DOMAIN s}

Min(a, b) == IF a < b THEN a ELSE b

\* the orders argsort may return: every permutation along which the key does
\* not decrease (descending: does not increase)
ArgSorts(key, n, descending) ==
    {p \in [1..n -> 1..n] :
        /\ Injective(p)
        /\ \A i, j \in 1..n :
              i < j => IF descending THEN QuotLe(key[p[j]], key[p[i]])
                       ELSE QuotLe(key[p[i]], key[p[j]])}

\* a selection that sorts the wrong way round
GetNeuronIdxDescending(wt, k) ==
    LET n == Len(wt.w[1])
        key == [i \in 1..n |-> MeanAbsWeight(wt, i)]
    IN {SubSeq(p, 1, Min(k, n)) : p \in ArgSorts(key, n, TRUE)}

\* TrojanNN.get_neuron_idx: weight.argsort(descending=False)[:neuron_num]; the
\* order argsort gives equal weights is not fixed
GetNeuronIdx(wt, k) ==
    LET n == Len(wt.w[1])
        key == [i \in 1..n |-> MeanAbsWeight(wt, i)]
    IN {SubSeq(p, 1, Min(k, n)) : p \in ArgSorts(key, n, FALSE)}

\* a constructor that checks mark_random_init only
ConstructOutcomeInitOnly(random_init, random_pos) ==
    IF ~random_init THEN "error" ELSE "ready"

\* TrojanNN.__init__: the two checks that raise
ConstructOutcome(random_init, random_pos) ==
    IF ~random_init THEN "error"
    ELSE IF random_pos THEN "error"
    ELSE "ready"

\* an assignment to every channel of the mark, the mask channel included
SetAllChannels(m, pixels) ==
    [c \in DOMAIN m |-> IF c < Len(m) THEN pixels[c] ELSE pixels[1]]

\* mark[:-1] = pixels
SetPixels(m, pixels) ==
    [c \in DOMAIN m |-> IF c < Len(m) THEN pixels[c] ELSE m[c]]

\* (trigger_feats[0] - target_value).square().sum() of preprocess_mark, the
\* features being the absolute activations of the layer
PreprocessLoss(feats, target) ==
    LET sq == [i \in DOMAIN feats |-> (Abs(feats[i]) - target) * (Abs(feats[i]) - target)]
    IN SumSeq(sq, Len(sq))

\* the sum of squares over the neurons of idx only
ChosenLoss(feats, target, idx) ==
    LET sq == [j \in DOMAIN idx |->
                  (Abs(feats[idx[j]]) - target) * (Abs(feats[idx[j]]) - target)]
    IN SumSeq(sq, Len(sq))

NoIdx == <<>>

\* weights with equal rows, of a linear layer
SomeWeights == {wt \in WeightsOf(2, 1) : \A o \in DOMAIN wt.w : wt.w[o] = wt.w[1]}

\* weights of a convolution whose output channels have the same kernels
ConvWeights ==
    {wt \in WeightsOf(4, kernel_size[1]) : \A o \in DOMAIN wt.w : wt.w[o] = wt.w[1]}

NNCommonInit ==
    /\ nn_atanh_mark = NoTensor
    /\ neuron_idx = NoIdx
    /\ nn_step = 0
    /\ trigger_feats = <<>>
    /\ loss = 0

NNInit ==
    /\ tpc = "new"
    /\ nn_random_init \in BOOLEAN
    /\ nn_random_pos \in BOOLEAN
    /\ nn_mark \in Tensors(MarkChannels, {0, 1000})
    /\ weight \in SomeWeights
    /\ mean_activation = [i \in 1..NumNeurons |-> 0]
    /\ neuron_num \in 1..MaxNeuronNum
    /\ neuron_epoch \in 1..MaxNeuronEpoch
    /\ target_value \in {1, 2}
    /\ NNCommonInit

\* a constructed TrojanNN with any weight, for get_neuron_idx alone
NeuronIdxInit ==
    /\ tpc = "ready"
    /\ nn_random_init = TRUE
    /\ nn_random_pos = FALSE
    /\ nn_mark = ZeroTensor
    /\ weight \in WeightsOf(2, 1) \cup ConvWeights
    /\ mean_activation \in [1..NumNeurons -> MeanActVals]
    /\ neuron_num \in 1..MaxNeuronNum
    /\ neuron_epoch = 1
    /\ target_value = 1
    /\ NNCommonInit

\* TrojanNN is not running
NNIdle ==
    /\ tpc = "idle"
    /\ nn_random_init = TRUE
    /\ nn_random_pos = FALSE
    /\ nn_mark = ZeroTensor
    /\ weight = <<>>
    /\ mean_activation = <<>>
    /\ neuron_num = 0
    /\ neuron_epoch = 0
    /\ target_value = 0
    /\ NNCommonInit

\* TrojanNN.__init__
NNConstruct ==
    /\ tpc = "new"
    /\ tpc' = ConstructOutcome(nn_random_init, nn_random_pos)
    /\ neuron_idx' = NoIdx
    /\ UNCHANGED <<nn_random_init, nn_random_pos, nn_mark, nn_atanh_mark, weight,
                   mean_activation, neuron_num, neuron_epoch, target_value,
                   nn_step, trigger_feats, loss>>
    /\ UNCHANGED <<inspVars, filtVars, mixVars>>

\* attack: self.neuron_idx = self.get_neuron_idx()
NNGetNeuronIdx ==
    /\ tpc = "ready"
    /\ neuron_idx' \in GetNeuronIdx(weight, neuron_num)
    /\ tpc' = "selected"
    /\ UNCHANGED <<nn_random_init, nn_random_pos, nn_mark, nn_atanh_mark, weight,
                   mean_activation, neuron_num, neuron_epoch, target_value,
                   nn_step, trigger_feats, loss>>
    /\ UNCHANGED <<inspVars, filtVars, mixVars>>

\* preprocess_mark up to its loop
NNPreprocessStart ==
    /\ tpc = "selected"
    /\ nn_atanh_mark' \in Tensors(data_shape[1], AtanhVals)
    /\ nn_step' = 0
    /\ tpc' = "preprocess"
    /\ UNCHANGED <<nn_random_init, nn_random_pos, nn_mark, weight,
                   mean_activation, neuron_num, neuron_epoch, target_value,
                   neuron_idx, trigger_feats, loss>>
    /\ UNCHANGED <<inspVars, filtVars, mixVars>>

\* one iteration of preprocess_mark's loop
NNPreprocessStep ==
    /\ tpc = "preprocess"
    /\ nn_step < neuron_epoch
    /\ nn_mark' = SetPixels(nn_mark, TanhTensor(nn_atanh_mark))
    /\ \E feats \in [1..NumNeurons -> ActVals] :
          /\ trigger_feats' = feats
          /\ loss' = PreprocessLoss(feats, target_value)
    /\ nn_atanh_mark' \in Tensors(data_shape[1], AtanhVals)
    /\ nn_step' = nn_step + 1
    /\ UNCHANGED <<tpc, nn_random_init, nn_random_pos, weight, mean_activation,
                   neuron_num, neuron_epoch, target_value, neuron_idx>>
    /\ UNCHANGED <<inspVars, filtVars, mixVars>>

\* preprocess_mark after its loop
NNPreprocessEnd ==
    /\ tpc = "preprocess"
    /\ nn_step >= neuron_epoch
    /\ nn_mark' = SetPixels(nn_mark, TanhTensor(nn_atanh_mark))
    /\ tpc' = "preprocessed"
    /\ UNCHANGED <<nn_random_init, nn_random_pos, nn_atanh_mark, weight,
                   mean_activation, neuron_num, neuron_epoch, target_value,
                   neuron_idx, nn_step, trigger_feats, loss>>
    /\ UNCHANGED <<inspVars, filtVars, mixVars>>

\* attack: super().attack(...), the training of the parent class
NNTrain ==
    /\ tpc = "preprocessed"
    /\ tpc' = "training"
    /\ UNCHANGED <<nn_random_init, nn_random_pos, nn_mark, nn_atanh_mark, weight,
                   mean_activation, neuron_num, neuron_epoch, target_value,
                   neuron_idx, nn_step, trigger_feats, loss>>
    /\ UNCHANGED <<inspVars, filtVars, mixVars>>

-----------------------------------------------------------------------------
(* TrainingFiltering                                                       *)

\* defense_input_num is at most this
MaxMixNum == 4

\* attack.train_mode
TrainModes == {"batch", "dataset", "loss"}

\* attack.poison_percent in quarters: 0.25, 0.5, 0.75
PoisonQuarters == {1, 2, 3}

\* int(defense_input_num * poison_percent)
PoisonNum(n, quarters) == (n * quarters) \div 4

\* what get_mix_dataset does for defense_input_num n, train mode mode, a train
\* set of t samples and an attack.poison_dataset of p samples:
\*   "returned"       it returns datasets of the lengths clean and poison
\*   "error_unbound"  the return statement reads clean_dataset, which no branch
\*                    assigned (UnboundLocalError)
GetMixDataset(n, mode, quarters, t, p) ==
    IF n = 0
    THEN [outcome |-> "returned", clean |-> t, poison |-> p]
    ELSE IF mode # "dataset"
    THEN LET poison_num == PoisonNum(n, quarters)
             clean_num == n - poison_num
         IN [outcome |-> "returned", clean |-> clean_num, poison |-> poison_num]
    ELSE [outcome |-> "error_unbound", clean |-> 0, poison |-> 0]

\* TrainingFiltering.get_true_labels: zeros(len(clean)) then ones(len(poison))
MixTrueLabels(c, p) == [i \in 1..(c + p) |-> i > c]

\* before the constructor runs: a defense_input_num that is set asks for at
\* least one clean and one poisoned sample, and the train set holds enough
\* samples for any defense_input_num; an attack in train mode 'dataset' has
\* built its poison_dataset, any other has none yet
MixInit ==
    /\ mpc = "new"
    /\ tf_input_num \in 0..MaxMixNum
    /\ train_mode \in TrainModes
    /\ poison_percent \in PoisonQuarters
    /\ tf_input_num > 0 =>
          /\ PoisonNum(tf_input_num, poison_percent) >= 1
          /\ tf_input_num - PoisonNum(tf_input_num, poison_percent) >= 1
    /\ train_len \in MaxMixNum..(MaxMixNum + 1)
    /\ attack_poison_len \in IF train_mode = "dataset" THEN 1..2 ELSE {0}
    /\ clean_len = 0
    /\ poison_len = 0
    /\ tf_y_true = <<>>

\* TrainingFiltering is not running
MixIdle ==
    /\ mpc = "idle"
    /\ tf_input_num = 0
    /\ train_mode = "batch"
    /\ poison_percent = 0
    /\ train_len = 0
    /\ attack_poison_len = 0
    /\ clean_len = 0
    /\ poison_len = 0
    /\ tf_y_true = <<>>

\* __init__ up to the call of get_mix_dataset: unless the train mode is
\* 'dataset' the attack builds a poison_dataset as long as the train set
MixConstruct ==
    /\ mpc = "new"
    /\ attack_poison_len' = IF train_mode # "dataset" THEN train_len
                            ELSE attack_poison_len
    /\ mpc' = "mixing"
    /\ UNCHANGED <<tf_input_num, train_mode, poison_percent, train_len,
                   clean_len, poison_len, tf_y_true>>
    /\ UNCHANGED <<inspVars, filtVars, nnVars>>

\* self.clean_dataset, self.poison_dataset = self.get_mix_dataset()
MixGetDataset ==
    /\ mpc = "mixing"
    /\ LET r == GetMixDataset(tf_input_num, train_mode, poison_percent,
                              train_len, attack_poison_len)
       IN /\ mpc' = r.outcome
          /\ clean_len' = r.clean
          /\ poison_len' = r.poison
    /\ UNCHANGED <<tf_input_num, train_mode, poison_percent, train_len,
                   attack_poison_len, tf_y_true>>
    /\ UNCHANGED <<inspVars, filtVars, nnVars>>

\* detect: y_true = self.get_true_labels()
MixDetect ==
    /\ mpc = "returned"
    /\ tf_y_true' = MixTrueLabels(clean_len, poison_len)
    /\ mpc' = "labelled"
    /\ UNCHANGED <<tf_input_num, train_mode, poison_percent, train_len,
                   attack_poison_len, clean_len, poison_len>>
    /\ UNCHANGED <<inspVars, filtVars, nnVars>>

-----------------------------------------------------------------------------
(* Specifications.                                                         *)

\* ModelInspection.detect
Init == InspInit /\ FiltIdle /\ NNIdle /\ MixIdle

Next ==
    \/ Detect
    \/ OptimizeStart
    \/ EpochStart
    \/ Batch
    \/ EpochEnd
    \/ OptimizeReturn
    \/ SweepAppend
    \/ SweepDone

Spec == Init /\ [][Next]_vars

\* InputFiltering.detect
FilterInit == InspIdle /\ FiltInit /\ NNIdle /\ MixIdle

FilterNext ==
    \/ FilterStart
    \/ FilterSkip
    \/ FilterScore
    \/ FilterCat
    \/ FilterTrueLabels
    \/ FilterMetrics

SpecFilter == FilterInit /\ [][FilterNext]_vars

\* TrojanNN.__init__ and TrojanNN.attack
TrojanInit == InspIdle /\ FiltIdle /\ NNInit /\ MixIdle

TrojanNext ==
    \/ NNConstruct
    \/ NNGetNeuronIdx
    \/ NNPreprocessStart
    \/ NNPreprocessStep
    \/ NNPreprocessEnd
    \/ NNTrain

SpecTrojan == TrojanInit /\ [][TrojanNext]_vars

\* TrojanNN.get_neuron_idx on every weight
NeuronInit == InspIdle /\ FiltIdle /\ NeuronIdxInit /\ MixIdle

NeuronNext == NNGetNeuronIdx

SpecNeuronIdx == NeuronInit /\ [][NeuronNext]_vars

\* TrainingFiltering.__init__ and detect
MixSpecInit == InspIdle /\ FiltIdle /\ NNIdle /\ MixInit

MixNext ==
    \/ MixConstruct
    \/ MixGetDataset
    \/ MixDetect

SpecMix == MixSpecInit /\ [][MixNext]_vars

-----------------------------------------------------------------------------
(* Properties of ModelInspection, checked under Spec.                      *)

InLoop == pc \in {"epoch_start", "batch", "epoch_end"}
AfterLoop == pc \in {"finish", "returned"}

\* C1 as the specification states it: the mask optimize_mark returns has a
\* mask-channel L1 norm no larger than that of the mask held when the first
\* epoch ended.
C1_ReturnedMaskNormAtMostFirst ==
    pc = "returned" => L1Norm(MaskChannel(ret[1])) <= first_mask_norm

\* C1, amended: what never increases is norm_best, the epoch mean of the
\* per-batch mask norms recorded with the snapshot.  At the end of every epoch
\* norm_best is no larger than it was, no larger than this epoch's mean and no
\* larger than the mean of the first completed epoch.
C1_BestNormNeverIncreases ==
    [][pc = "epoch_end" =>
          /\ FloatLe(norm_best', norm_best)
          /\ FloatLe(norm_best', MeterAvg(norm))
          /\ FloatLe(norm_best', first_norm_avg')]_vars

\* a call returned after a later epoch lowered norm_best, with a mask whose own
\* norm is larger than that of the mask the first epoch ended with
C1_Witness ==
    /\ pc = "returned"
    /\ epoch >= 2
    /\ FloatLt(norm_best, first_norm_avg)
    /\ L1Norm(MaskChannel(ret[1])) > first_mask_norm

C3_SweepYieldsOnePairPerClass ==
    pc = "done" =>
        /\ Len(mark_list) = num_classes
        /\ Len(loss_list) = num_classes
        /\ Len(opt_log) = num_classes
        /\ \A i \in 1..num_classes :
              /\ opt_log[i][1] = i - 1
              /\ mark_list[i] = opt_log[i][2]
              /\ loss_list[i] = opt_log[i][3]
              /\ HasMarkShape(mark_list[i])

\* a finished sweep over two classes whose two results differ
C3_Witness ==
    /\ pc = "done"
    /\ num_classes = 2
    /\ mark_list[1] # mark_list[2]
    /\ loss_list[1] # loss_list[2]

MaskInUnitInterval(m) ==
    \A p \in DOMAIN MaskChannel(m) : MaskChannel(m)[p] \in 0..1000

\* C4: in every state of detect / optimize_mark every value of the mask
\* channel of the mark lies in [0, 1], and whenever the mark changes it becomes
\* the zero tensor, tanh_func(atanh_mark) or a snapshot taken before.
C4_MaskStaysInUnitInterval ==
    /\ [](mark # NoTensor /\ MaskInUnitInterval(mark))
    /\ [][mark' # mark =>
             \/ mark' = ZeroTensor
             \/ mark' = TanhTensor(atanh_mark')
             \/ mark' = mark_best
             \/ \E i \in DOMAIN mark_list : mark' = mark_list[i]]_vars

\* inside the loop, after an optimizer step that left a parameter of magnitude
\* 20 in the mask channel
C4_Witness ==
    /\ pc = "batch"
    /\ steps >= 1
    /\ \E p \in DOMAIN MaskChannel(atanh_mark) : Abs(MaskChannel(atanh_mark)[p]) >= 20
    /\ mark = TanhTensor(atanh_mark)

\* C10: check_early_stop is evaluated once per completed epoch; once it has
\* returned true the call is out of its loop (no further epoch, no further
\* optimizer step), having run the batches of the epochs completed so far and
\* no more, and it returns the best snapshot, which takes the last epoch into
\* account; when it never returns true (always, with the default predicate)
\* exactly defense_remask_epoch epochs run.
C10_EarlyStopEndsTheCall ==
    /\ checks = epoch
    /\ stopped => ~InLoop
    /\ ~early_hook => ~stopped
    /\ InLoop \/ AfterLoop => epoch <= defense_remask_epoch
    /\ AfterLoop =>
          /\ steps = epoch * Len(loader)
          /\ ~stopped => epoch = defense_remask_epoch
          /\ mark_best # NoTensor
          /\ FloatLe(norm_best, MeterAvg(norm))
    /\ pc = "returned" => ret = <<mark_best, entropy_best>>

\* a call that returned after an early stop, before its last epoch
C10_Witness ==
    /\ pc = "returned"
    /\ stopped
    /\ epoch < defense_remask_epoch
    /\ steps = epoch * Len(loader)

\* the classes of the running sweep whose loop body has completed
CompletedClasses == IF pc = "init" THEN 0 ELSE label

\* C11: the sweep writes one file, replaced at the end of every class: before
\* the first class completes it has written nothing; once classes 0 .. i have
\* completed the file's mark_list and loss_list hold exactly i+1 entries, the
\* k-th the mask and the loss optimize_mark returned for class k; when the
\* sweep is done the file holds the N pairs get_mark_loss_list returns.
C11_FileHoldsCompletedClasses ==
    /\ Len(file) <= 1
    /\ CompletedClasses = 0 => file = <<>>
    /\ CompletedClasses > 0 =>
          /\ Len(file) = 1
          /\ Len(file[1].mark_list) = CompletedClasses
          /\ Len(file[1].loss_list) = CompletedClasses
          /\ \A k \in 1..CompletedClasses :
                /\ opt_log[k][1] = k - 1
                /\ file[1].mark_list[k] = opt_log[k][2]
                /\ file[1].loss_list[k] = opt_log[k][3]
    /\ pc = "done" =>
          /\ CompletedClasses = num_classes
          /\ file = <<[mark_list |-> mark_list, loss_list |-> loss_list]>>

\* a finished sweep over two classes whose file, written twice, holds two
\* different pairs
C11_Witness ==
    /\ pc = "done"
    /\ num_classes = 2
    /\ Len(file[1].mark_list) = 2
    /\ file[1].mark_list[1] # file[1].mark_list[2]
    /\ file[1].loss_list[1] # file[1].loss_list[2]

\* a step that enters optimize_mark
StartsRun == pc = "sweep" /\ pc' \in {"epoch_start", "finish"}

\* C12: every call of optimize_mark starts from scratch.  Whatever the calls
\* before it left behind, the step that enters a call leaves the mark equal to
\* tanh_func of the newly drawn parameter, the best-so-far triple at
\* (inf, None, None), the meters empty and the counters at zero, and changes
\* none of the results collected so far; until the call's first epoch ends
\* no snapshot exists, and from then on norm_best is bounded by the mean of
\* this call's own first epoch and mark_best is a mark this call
\* reparameterised.  So the state a call computes from is a function of its
\* own random draw, the data and the optimizer alone.
C12_EachRunStartsFromScratch ==
    /\ [][StartsRun =>
             /\ atanh_mark' \in Tensors(MarkChannels, AtanhVals)
             /\ mark' = TanhTensor(atanh_mark')
             /\ <<norm_best', mark_best', entropy_best'>> = <<Inf, NoTensor, None>>
             /\ norm' = MeterReset /\ entropy' = MeterReset
             /\ epoch' = 0 /\ steps' = 0 /\ checks' = 0 /\ ~stopped'
             /\ UNCHANGED <<label, mark_list, loss_list, file, opt_log>>]_vars
    /\ []((InLoop /\ epoch = 0) =>
             <<norm_best, mark_best, entropy_best>> = <<Inf, NoTensor, None>>)
    /\ [](InLoop => mark = TanhTensor(atanh_mark))
    /\ []((AfterLoop /\ epoch >= 1) =>
             /\ FloatLe(norm_best, first_norm_avg)
             /\ mark_best \in {TanhTensor(t) : t \in Tensors(MarkChannels, AtanhVals)})

\* the call for the second class has just started: the first class left a
\* different mark in attack.mark and its own best-so-far triple, and the new
\* call holds neither
C12_Witness ==
    /\ pc = "epoch_start"
    /\ label = 1
    /\ epoch = 0
    /\ Len(opt_log) = 1
    /\ mark # opt_log[1][2]
    /\ mark_best = NoTensor
    /\ norm_best = Inf

-----------------------------------------------------------------------------
(* Properties of InputFiltering, checked under SpecFilter.                 *)

HasPred == fpc \in {"pred", "labels", "scored", "error_len"}

IsSorted(s) == \A i, j \in DOMAIN s : i < j => s[i] <= s[j]

CountOf(s, v) == Cardinality({i \in DOMAIN s : s[i] = v})

\* C5 as the specification states it: for two disjoint sorted score sets of
\* size n, score2label gives 2n labels, n of them True and n False, the True
\* ones being those of the poison scores.
C5_HalfTrueHalfFalse ==
    (HasPred /\ Range(clean_sorted) \cap Range(poison_sorted) = {}) =>
        LET n == Len(clean_sorted)
        IN /\ Len(y_pred) = 2 * n
           /\ CountOf(y_pred, TRUE) = n
           /\ CountOf(y_pred, FALSE) = n
           /\ \A i \in 1..n : y_pred[n + i] = TRUE

\* C5, amended: for two sorted score sets of size n, score2label gives 2n
\* labels, those of the clean scores first and those of the poison scores
\* after them, and a label is True exactly when its score is not zero.
C5_LabelsFollowScores ==
    HasPred =>
        LET n == Len(clean_sorted)
        IN /\ Len(poison_sorted) = n
           /\ IsSorted(clean_sorted) /\ IsSorted(poison_sorted)
           /\ Len(y_pred) = 2 * n
           /\ \A i \in 1..n :
                 /\ y_pred[i] = (clean_sorted[i] # 0)
                 /\ y_pred[n + i] = (poison_sorted[i] # 0)

\* two disjoint score sets of size two or more whose labels are not half True
C5_Witness ==
    /\ HasPred
    /\ Len(clean_sorted) >= 2
    /\ Range(clean_sorted) \cap Range(poison_sorted) = {}
    /\ CountOf(y_pred, TRUE) # Len(clean_sorted)
    /\ y_pred[1] # y_pred[Len(y_pred)]

\* C6: when detect compares them, y_pred and y_true have the same length and
\* the same layout: the entries of the clean inputs first (False in y_true),
\* those of the poisoned inputs after them (True in y_true).
C6_PredAndTrueLabelsAlign ==
    fpc = "labels" =>
        /\ Len(y_pred) = Len(y_true)
        /\ \A i \in DOMAIN y_true : y_true[i] = (i > Len(clean_sorted))

\* the inputs get_pred_labels has scored so far
ScoredInputs == Len(Cat(clean_scores))

\* C14: whatever the batch sizes of the loader, get_pred_labels scores at most
\* defense_input_num clean inputs and as many poisoned ones: once
\* defense_input_num inputs have been scored no further batch is scored.
C14_ScoresAtMostInputNum ==
    /\ ScoredInputs <= defense_input_num
    /\ Len(Cat(poison_scores)) = ScoredInputs

-----------------------------------------------------------------------------
(* Properties of TrojanNN, checked under SpecTrojan and SpecNeuronIdx.     *)

\* C7: with mark_random_pos true the constructor raises: the object is never
\* constructed, and get_neuron_idx, preprocess_mark and the training never
\* run.
C7_RandomPosNeverConstructs ==
    nn_random_pos =>
        /\ tpc \in {"new", "error"}
        /\ neuron_idx = NoIdx
        /\ nn_atanh_mark = NoTensor
        /\ nn_step = 0

\* the constructor raised for a mark that is randomly initialised and randomly
\* placed
C7_Witness ==
    /\ tpc = "error"
    /\ nn_random_pos
    /\ nn_random_init

\* C8: the loss of every step of preprocess_mark is the sum of the squared
\* differences between the target value and the activations of the neurons of
\* neuron_idx only.
C8_LossOverChosenNeuronsOnly ==
    (tpc = "preprocess" /\ nn_step >= 1) =>
        loss = ChosenLoss(trigger_feats, target_value, neuron_idx)

\* C9 as the specification states it: get_neuron_idx returns exactly
\* neuron_num distinct neurons, each with a mean absolute activation over the
\* dataset no larger than that of any neuron not returned.
C9_LeastActivatedNeurons ==
    tpc = "selected" =>
        /\ Len(neuron_idx) = neuron_num
        /\ Injective(neuron_idx)
        /\ \A r \in Range(neuron_idx) : \A m \in (1..NumNeurons) \ Range(neuron_idx) :
              mean_activation[r] <= mean_activation[m]

\* C9, amended: get_neuron_idx returns min(neuron_num, number of neurons)
\* distinct neurons of the layer, each with a mean absolute weight in
\* preprocess_next_layer no larger than that of any neuron not returned.
C9_SmallestMeanAbsWeight ==
    tpc = "selected" =>
        /\ Len(neuron_idx) = Min(neuron_num, NumNeurons)
        /\ Injective(neuron_idx)
        /\ Range(neuron_idx) \subseteq 1..NumNeurons
        /\ \A r \in Range(neuron_idx) : \A m \in (1..NumNeurons) \ Range(neuron_idx) :
              QuotLe(MeanAbsWeight(weight, r), MeanAbsWeight(weight, m))

\* neurons chosen from a convolution's weight, one of them more activated over
\* the dataset than a neuron that was not chosen
C9_Witness ==
    /\ tpc = "selected"
    /\ weight.dim > 2
    /\ neuron_num < NumNeurons
    /\ \E r \in Range(neuron_idx) : \E m \in (1..NumNeurons) \ Range(neuron_idx) :
          /\ mean_activation[r] > mean_activation[m]
          /\ ~QuotLe(MeanAbsWeight(weight, m), MeanAbsWeight(weight, r))

\* attack has gone past get_neuron_idx
NeuronsSelected == tpc \in {"selected", "preprocess", "preprocessed", "training"}

\* C15: attack selects the neurons first, then runs preprocess_mark through
\* exactly neuron_epoch optimizer steps, and only then starts the training of
\* the parent class; no step of preprocess_mark changes the mask channel of
\* the mark or its placement flags, only the pixel channels.
C15_PreprocessBeforeTrainingKeepsMask ==
    /\ [](/\ ~NeuronsSelected => (neuron_idx = NoIdx /\ nn_atanh_mark = NoTensor)
          /\ NeuronsSelected => neuron_idx # NoIdx
          /\ tpc = "selected" => neuron_idx \in GetNeuronIdx(weight, neuron_num)
          /\ tpc \notin {"preprocess", "preprocessed", "training"} => nn_step = 0
          /\ nn_step <= neuron_epoch
          /\ tpc \in {"preprocessed", "training"} => nn_step = neuron_epoch)
    /\ [][/\ nn_mark'[MarkChannels] = nn_mark[MarkChannels]
          /\ UNCHANGED <<nn_random_init, nn_random_pos>>
          /\ nn_mark' # nn_mark => tpc = "preprocess"
          /\ neuron_idx' # neuron_idx => tpc = "ready"
          /\ nn_step' # nn_step => (tpc = "preprocess" /\ nn_step' = nn_step + 1)
          /\ tpc' = "preprocess" => tpc \in {"selected", "preprocess"}
          /\ tpc' = "training" => tpc \in {"preprocessed", "training"}]_vars

\* the training has started after two or more steps of preprocess_mark, which
\* left a pixel of the mark at tanh_func(1) and its mask at 1
C15_Witness ==
    /\ tpc = "training"
    /\ neuron_epoch >= 2
    /\ nn_step = neuron_epoch
    /\ nn_mark[1][1] = TanhFunc(1)
    /\ nn_mark[MarkChannels][1] = 1000

-----------------------------------------------------------------------------
(* Properties of TrainingFiltering, checked under SpecMix.                 *)

\* C13: for every defense_input_num (unset or positive) and every train mode
\* get_mix_dataset returns a pair of datasets; when defense_input_num is set
\* the poison dataset has int(defense_input_num * poison_percent) samples and
\* the clean dataset the other defense_input_num - poison_num.
C13_MixAlwaysReturnsSizedPair ==
    mpc \notin {"new", "mixing"} =>
        /\ mpc \in {"returned", "labelled"}
        /\ tf_input_num > 0 =>
              /\ poison_len = PoisonNum(tf_input_num, poison_percent)
              /\ clean_len = tf_input_num - poison_len

====
